---- MODULE Spec2Model ----
(***************************************************************************)
(* Model of yaml-diff.py: two documents are loaded, compared with          *)
(*   DeepDiff(a, b, ignore_order=True,                                     *)
(*            ignore_type_in_groups=[(str, int, float), (bool, str)])      *)
(* (src/yaml-diff.py:1169) and the result is rendered by print_diff        *)
(* (src/yaml-diff.py:1007-1083).                                           *)
(*                                                                         *)
(* The comparison itself is the deepdiff library, imported at              *)
(* src/yaml-diff.py:16.  The model follows the library's documented        *)
(* behaviour for exactly the options the call passes and the defaults it   *)
(* leaves alone (report_repetition=False, cutoff_distance_for_pairs):      *)
(*   - values of different Python types that share no ignore group are     *)
(*     reported under 'type_changes';                                      *)
(*   - values whose types share an ignore group are compared with Python   *)
(*     `!=`, without any conversion;                                       *)
(*   - with ignore_order, list items are matched by DeepHash, repetitions  *)
(*     are not reported, and an item is addressed by its index;            *)
(*   - unmatched items of the two lists may be paired by a distance        *)
(*     heuristic and then compared recursively.                            *)
(* Two points the call does not determine are nondeterministic choices,    *)
(* fixed for one run: whether the type-group test accepts subclasses       *)
(* (bool is a subclass of int; deepdiff releases differ) and whether the   *)
(* distance heuristic pairs unmatched list items.                          *)
(***************************************************************************)
EXTENDS Integers, Sequences, FiniteSets, TLC

(***************************************************************************)
(* Bounds of the model.                                                    *)
(***************************************************************************)
MaxNum == 1
MaxLen == 2
MaxPathLen == 5
MaxStr == 42
MaxArgs == 5
MaxEntries == 2
MaxEsc == 5

(***************************************************************************)
(* Values of a loaded document: <<tag, payload>>.                          *)
(***************************************************************************)
Null == <<"null", 0>>
Bool(v) == <<"bool", v>>
Num(n) == <<"num", n>>
Text(s) == <<"text", s>>
List(items) == <<"list", items>>
Map(f) == <<"map", f>>

Tag(v) == v[1]
Val(v) == v[2]

IsScalar(v) == Tag(v) \in {"null", "bool", "num", "text"}

\* str() of the digits the model uses: decimal representation of a number.
Digits == <<"0", "1", "2", "3", "4", "5", "6", "7", "8", "9">>
NumStr(n) == Digits[n + 1]

Nums == 0..MaxNum
Texts == {NumStr(n) : n \in Nums} \cup {"true"}
Scalars == {Null} \cup {Bool(v) : v \in BOOLEAN} \cup {Num(n) : n \in Nums}
              \cup {Text(s) : s \in Texts}

Keys == {"a", "b", "c"}

\* Mappings from a subset of Keys to values of the set vals.
MapsOver(vals) == UNION {{Map(f) : f \in [ks -> vals]} : ks \in SUBSET Keys}

\* Sequences of at most n values of the set elems.
SeqsOver(elems, n) == UNION {{List(s) : s \in [1..k -> elems]} : k \in 0..n}

(***************************************************************************)
(* DeepDiff's result: one set of entries per report type.  The text view   *)
(* keys 'type_changes', 'values_changed' and the 'iterable_item_*' buckets *)
(* by path; the 'dictionary_item_*' buckets hold paths only.               *)
(***************************************************************************)
KeySeg(k) == <<"key", k>>
IdxSeg(i) == <<"idx", i>>
Root == <<>>

EmptyDiff ==
    [type_changes |-> {}, values_changed |-> {},
     dictionary_item_added |-> {}, dictionary_item_removed |-> {},
     iterable_item_added |-> {}, iterable_item_removed |-> {}]

\* Union, bucket by bucket, of a set of results.
MergeAll(ds) ==
    [type_changes |-> UNION {d.type_changes : d \in ds},
     values_changed |-> UNION {d.values_changed : d \in ds},
     dictionary_item_added |-> UNION {d.dictionary_item_added : d \in ds},
     dictionary_item_removed |-> UNION {d.dictionary_item_removed : d \in ds},
     iterable_item_added |-> UNION {d.iterable_item_added : d \in ds},
     iterable_item_removed |-> UNION {d.iterable_item_removed : d \in ds}]

Change(path, t1, t2) == [path |-> path, old_value |-> t1, new_value |-> t2]
Item(path, v) == [path |-> path, value |-> v]

\* `not diff`: DeepDiff keeps no empty bucket, so it is falsy iff every
\* bucket is empty.
IsEmpty(d) == d = EmptyDiff

(***************************************************************************)
(* Type test of DeepDiff._diff under ignore_type_in_groups.                *)
(***************************************************************************)
PyType(v) ==
    CASE Tag(v) = "null" -> "NoneType"
      [] Tag(v) = "bool" -> "bool"
      [] Tag(v) = "num" -> "int"
      [] Tag(v) = "text" -> "str"
      [] Tag(v) = "list" -> "list"
      [] Tag(v) = "map" -> "dict"

\* ignore_type_in_groups=[(str, int, float), (bool, str)]
IgnoreTypeInGroups == {{"str", "int", "float"}, {"bool", "str"}}

\* type_check_func: exact membership, or isinstance when subclasses count
\* (bool is a subclass of int).
TypeInGroup(v, g, subclasses) ==
    \/ PyType(v) \in g
    \/ subclasses /\ PyType(v) = "bool" /\ "int" \in g

ReportTypeChange(t1, t2, subclasses) ==
    /\ PyType(t1) # PyType(t2)
    /\ ~ \E g \in IgnoreTypeInGroups :
            TypeInGroup(t1, g, subclasses) /\ TypeInGroup(t2, g, subclasses)

\* PyNotEqual with str compared by identity: two loaded strings always differ.
PyNotEqualIdentity(t1, t2) ==
    IF Tag(t1) = Tag(t2) THEN Tag(t1) = "text" \/ Val(t1) # Val(t2)
    ELSE IF Tag(t1) = "bool" /\ Tag(t2) = "num"
         THEN Val(t2) # (IF Val(t1) THEN 1 ELSE 0)
    ELSE IF Tag(t1) = "num" /\ Tag(t2) = "bool"
         THEN Val(t1) # (IF Val(t2) THEN 1 ELSE 0)
    ELSE TRUE

\* Python's `t1 != t2` on two scalars: values of one type compare by value,
\* True == 1 and False == 0, and a str never equals an int or a bool.
PyNotEqual(t1, t2) ==
    IF Tag(t1) = Tag(t2) THEN Val(t1) # Val(t2)
    ELSE IF Tag(t1) = "bool" /\ Tag(t2) = "num"
         THEN Val(t2) # (IF Val(t1) THEN 1 ELSE 0)
    ELSE IF Tag(t1) = "num" /\ Tag(t2) = "bool"
         THEN Val(t1) # (IF Val(t2) THEN 1 ELSE 0)
    ELSE TRUE

(***************************************************************************)
(* DeepHash of a list item, as DeepDiff uses it with ignore_order and      *)
(* without report_repetition: the type is part of a scalar's hash, a       *)
(* list hashes as the set of its items' hashes, a dict key by key.         *)
(***************************************************************************)
RECURSIVE DeepHash(_)
DeepHash(v) ==
    IF Tag(v) = "list"
    THEN <<"list", {DeepHash(Val(v)[i]) : i \in DOMAIN Val(v)}>>
    ELSE IF Tag(v) = "map"
    THEN <<"map", {<<k, DeepHash(Val(v)[k])>> : k \in DOMAIN Val(v)}>>
    ELSE v

\* t1_hashtable[hash].indexes[0]: the first index of each distinct item.
FirstIndexes(s) ==
    {i \in DOMAIN s : \A j \in DOMAIN s : j < i => DeepHash(s[j]) # DeepHash(s[i])}

\* HashesOnlyIn without ignore_order: an item matches only the item at its
\* own index.
HashesOnlyInPositional(s1, s2) ==
    {i \in DOMAIN s1 : i \notin DOMAIN s2 \/ DeepHash(s2[i]) # DeepHash(s1[i])}

\* hashes_removed = t1_hashes - t2_hashes, as first indexes into s1.
HashesOnlyIn(s1, s2) ==
    {i \in FirstIndexes(s1) : \A j \in DOMAIN s2 : DeepHash(s2[j]) # DeepHash(s1[i])}

Rank(S, x) == Cardinality({y \in S : y <= x})

\* pairs of _get_most_in_common_pairs_in_iterables: none when the distance
\* heuristic finds no item close enough, else the unmatched items of the
\* two lists in their order of appearance.
Pairs(removed, added, get_pairs) ==
    IF get_pairs
    THEN {<<i, j>> \in removed \X added : Rank(removed, i) = Rank(added, j)}
    ELSE {}

\* KeysOnlyIn without the intersection taken out.
KeysOnlyInAll(m1, m2) == DOMAIN m1

\* keys of t1 that t2 lacks (t1_keys - t_keys_intersect).
KeysOnlyIn(m1, m2) == DOMAIN m1 \ DOMAIN m2

(***************************************************************************)
(* DeepDiff._diff at one level of the two trees.                           *)
(***************************************************************************)
RECURSIVE Diff(_, _, _, _, _)
Diff(t1, t2, path, subclasses, get_pairs) ==
    IF ReportTypeChange(t1, t2, subclasses)
    THEN [EmptyDiff EXCEPT !.type_changes = {Change(path, t1, t2)}]
    ELSE IF Tag(t1) = "map"
    THEN \* _diff_dict
         LET m1 == Val(t1)
             m2 == Val(t2)
         IN  MergeAll(
               {[EmptyDiff EXCEPT
                   !.dictionary_item_added =
                       {Append(path, KeySeg(k)) : k \in KeysOnlyIn(m2, m1)},
                   !.dictionary_item_removed =
                       {Append(path, KeySeg(k)) : k \in KeysOnlyIn(m1, m2)}]}
               \cup {Diff(m1[k], m2[k], Append(path, KeySeg(k)),
                          subclasses, get_pairs) :
                       k \in DOMAIN m1 \cap DOMAIN m2})
    ELSE IF Tag(t1) = "list"
    THEN \* _diff_iterable_with_deephash
         LET s1 == Val(t1)
             s2 == Val(t2)
             removed == HashesOnlyIn(s1, s2)
             added == HashesOnlyIn(s2, s1)
             pairs == Pairs(removed, added, get_pairs)
         IN  MergeAll(
               {[EmptyDiff EXCEPT
                   !.iterable_item_removed =
                       {Item(Append(path, IdxSeg(i - 1)), s1[i]) :
                          i \in {r \in removed : \A p \in pairs : p[1] # r}},
                   !.iterable_item_added =
                       {Item(Append(path, IdxSeg(j - 1)), s2[j]) :
                          j \in {r \in added : \A p \in pairs : p[2] # r}}]}
               \cup {Diff(s1[p[1]], s2[p[2]], Append(path, IdxSeg(p[1] - 1)),
                          subclasses, get_pairs) : p \in pairs})
    ELSE \* _diff_booleans, _diff_str, _diff_numbers
         IF PyNotEqual(t1, t2)
         THEN [EmptyDiff EXCEPT !.values_changed = {Change(path, t1, t2)}]
         ELSE EmptyDiff

\* DeepDiff(a, b, ignore_order=True, ignore_type_in_groups=[...])
DeepDiff(t1, t2, subclasses, get_pairs) ==
    Diff(t1, t2, Root, subclasses, get_pairs)

(***************************************************************************)
(* The documents the two files can hold.                                   *)
(***************************************************************************)
NumScalars == {Num(n) : n \in Nums}
ListItems == NumScalars \cup {Map([k \in {"a"} |-> v]) : v \in NumScalars}
Lists == SeqsOver(ListItems, MaxLen)
Maps == MapsOver(NumScalars)
Docs == Scalars \cup Lists \cup Maps

\* A document, the same under one key, or the same as the only list item.
Wraps == {"none", "key", "list"}
Wrap(w, v) ==
    CASE w = "none" -> v
      [] w = "key" -> Map([k \in {"a"} |-> v])
      [] w = "list" -> List(<<v>>)

(***************************************************************************)
(* Strings are sequences of characters.                                    *)
(***************************************************************************)
StartsWith(s, p) == Len(s) >= Len(p) /\ SubSeq(s, 1, Len(p)) = p

\* str.replace(old, new): every occurrence, leftmost first, no overlap.
RECURSIVE Replace(_, _, _)
Replace(s, old, new) ==
    IF s = <<>> THEN <<>>
    ELSE IF StartsWith(s, old)
         THEN new \o Replace(SubSeq(s, Len(old) + 1, Len(s)), old, new)
         ELSE <<Head(s)>> \o Replace(Tail(s), old, new)

\* str(path) of a DeepDiff text-view path: root['key'][index]...
RECURSIVE SegsStr(_)
SegsStr(path) ==
    IF path = <<>> THEN <<>>
    ELSE (IF Head(path)[1] = "key"
          THEN <<"[", "'", Head(path)[2], "'", "]">>
          ELSE <<"[", NumStr(Head(path)[2]), "]">>) \o SegsStr(Tail(path))

PathStr(path) == <<"r", "o", "o", "t">> \o SegsStr(path)

\* The separator clean_path puts between keys: space, arrow (written ">"
\* here), space.
Arrow == <<" ", ">", " ">>

\* str(path).replace("root['", "").replace("']['", " > ").replace("']", "")
clean_path(path_str) ==
    Replace(Replace(Replace(path_str, <<"r", "o", "o", "t", "[", "'">>, <<>>),
                    <<"'", "]", "[", "'">>, Arrow),
            <<"'", "]">>, <<>>)

\* None where Python has None instead of a str.
NoneStr == <<"None">>

\* `not s` for a str or None.
IsFalsy(s) == s = NoneStr \/ s = <<>>

\* The index of the first sep in s, 0 when there is none.
Find(s, sep) ==
    IF \E i \in DOMAIN s : s[i] = sep
    THEN CHOOSE i \in DOMAIN s : s[i] = sep /\ \A j \in 1..(i - 1) : s[j] # sep
    ELSE 0

\* Split that never splits: the whole string as one segment.
SplitNone(s, sep) == <<s>>

\* s.split(sep) for a one-character separator.
RECURSIVE Split(_, _)
Split(s, sep) ==
    IF Find(s, sep) = 0 THEN <<s>>
    ELSE <<SubSeq(s, 1, Find(s, sep) - 1)>>
           \o Split(SubSeq(s, Find(s, sep) + 1, Len(s)), sep)

(***************************************************************************)
(* navigate_to_key (lines 55-68).                                          *)
(***************************************************************************)
\* `isinstance(current, dict) and key in current`
HasKey(current, key) ==
    Tag(current) = "map" /\ \E k \in DOMAIN Val(current) : <<k>> = key

Lookup(current, key) ==
    Val(current)[CHOOSE k \in DOMAIN Val(current) : <<k>> = key]

\* Navigate that returns the sub-tree reached so far when a key is missing.
RECURSIVE NavigatePartial(_, _, _)
NavigatePartial(data, current, keys) ==
    IF keys = <<>> THEN [result |-> current, warning |-> NoneStr]
    ELSE IF HasKey(current, Head(keys))
         THEN NavigatePartial(data, Lookup(current, Head(keys)), Tail(keys))
         ELSE [result |-> current, warning |-> Head(keys)]

\* The loop over keys: the value reached, or data and the warning printed
\* for the first key that is missing.
RECURSIVE Navigate(_, _, _)
Navigate(data, current, keys) ==
    IF keys = <<>> THEN [result |-> current, warning |-> NoneStr]
    ELSE IF HasKey(current, Head(keys))
         THEN Navigate(data, Lookup(current, Head(keys)), Tail(keys))
         ELSE [result |-> data, warning |-> Head(keys)]

navigate_to_key(data, key_path) ==
    IF IsFalsy(key_path) THEN [result |-> data, warning |-> NoneStr]
    ELSE Navigate(data, data, Split(key_path, "."))

(***************************************************************************)
(* truncate (lines 70-72) and the value columns of print_diff              *)
(* (lines 1023-1047).                                                      *)
(***************************************************************************)
Min(m, n) == IF m < n THEN m ELSE n
Max(m, n) == IF m > n THEN m ELSE n

\* s[:k], where a negative k counts from the end.
SliceTo(s, k) ==
    IF k >= 0 THEN SubSeq(s, 1, Min(k, Len(s)))
    ELSE SubSeq(s, 1, Max(Len(s) + k, 0))

Dots == <<".", ".", ".">>

truncate(s, max_len) ==
    IF Len(s) <= max_len THEN s ELSE SliceTo(s, max_len - 3) \o Dots

\* The cap print_diff puts on the two value columns.
ValueWidthCap == 40

\* old_width / new_width: the longest value or the file name, capped.
ValueWidth(values, file_name) ==
    Min(Max(CHOOSE m \in {Len(values[i]) : i \in DOMAIN values} :
                \A i \in DOMAIN values : Len(values[i]) <= m,
            Len(file_name)),
        ValueWidthCap)

\* The cells of one value column: each value truncated to the column width.
ValueCells(values, file_name) ==
    [i \in DOMAIN values |-> truncate(values[i], ValueWidth(values, file_name))]

(***************************************************************************)
(* The command line: parse_config_keys (lines 1085-1092), parse_args       *)
(* (lines 1094-1126) and the start of __main__ (lines 1128-1157).          *)
(***************************************************************************)
\* split(sep, 1) at the last separator instead of the first.
SplitLast(s, sep) ==
    LET i == CHOOSE i \in DOMAIN s : s[i] = sep /\ \A j \in (i + 1)..Len(s) : s[j] # sep
    IN  <<SubSeq(s, 1, i - 1), SubSeq(s, i + 1, Len(s))>>

\* s.split(sep, 1) for an s that contains sep.
SplitFirst(s, sep) ==
    <<SubSeq(s, 1, Find(s, sep) - 1), SubSeq(s, Find(s, sep) + 1, Len(s))>>

parse_config_keys(config_key_arg) ==
    IF IsFalsy(config_key_arg) THEN <<NoneStr, NoneStr>>
    ELSE IF Find(config_key_arg, ":") # 0 THEN SplitFirst(config_key_arg, ":")
    ELSE <<config_key_arg, config_key_arg>>

HtmlFlag == <<"-", "-", "h", "t", "m", "l">>

\* Scan that steps over '--html' only, so that its value is scanned again.
RECURSIVE ScanKeepsValue(_, _, _, _)
ScanKeepsValue(argv, i, positional, html_output) ==
    IF i > Len(argv)
    THEN [exit |-> FALSE, positional |-> positional, html_output |-> html_output]
    ELSE IF argv[i] = HtmlFlag
    THEN IF i + 1 <= Len(argv)
         THEN ScanKeepsValue(argv, i + 1, positional, argv[i + 1])
         ELSE [exit |-> TRUE, positional |-> positional,
               html_output |-> html_output]
    ELSE ScanKeepsValue(argv, i + 1, Append(positional, argv[i]), html_output)

\* The while loop of parse_args from index i (argv[1] here is sys.argv[0]).
RECURSIVE Scan(_, _, _, _)
Scan(argv, i, positional, html_output) ==
    IF i > Len(argv)
    THEN [exit |-> FALSE, positional |-> positional, html_output |-> html_output]
    ELSE IF argv[i] = HtmlFlag
    THEN IF i + 1 <= Len(argv)
         THEN Scan(argv, i + 2, positional, argv[i + 1])
         ELSE [exit |-> TRUE, positional |-> positional,
               html_output |-> html_output]
    ELSE Scan(argv, i + 1, Append(positional, argv[i]), html_output)

NoArgs == [file1 |-> NoneStr, file2 |-> NoneStr, config_key |-> NoneStr,
           start_key |-> NoneStr, html_output |-> NoneStr]

\* AssignPositional with the last positional taken as start_key.
AssignPositionalLast(positional, html_output) ==
    [file1 |-> IF Len(positional) >= 2 THEN positional[1] ELSE NoneStr,
     file2 |-> IF Len(positional) >= 2 THEN positional[2] ELSE NoneStr,
     config_key |-> IF Len(positional) >= 3 THEN positional[3] ELSE NoneStr,
     start_key |-> IF Len(positional) >= 4 THEN positional[Len(positional)]
                   ELSE NoneStr,
     html_output |-> html_output]

\* The assignments after the loop (lines 1117-1124).
AssignPositional(positional, html_output) ==
    [file1 |-> IF Len(positional) >= 2 THEN positional[1] ELSE NoneStr,
     file2 |-> IF Len(positional) >= 2 THEN positional[2] ELSE NoneStr,
     config_key |-> IF Len(positional) >= 3 THEN positional[3] ELSE NoneStr,
     start_key |-> IF Len(positional) >= 4 THEN positional[4] ELSE NoneStr,
     html_output |-> html_output]

\* parse_args(argv): sys.exit(1) after the --html error, else args.
parse_args(argv) ==
    LET r == Scan(argv, 2, <<>>, NoneStr)
    IN  IF r.exit
        THEN [exit_code |-> 1, message |-> "html_error", args |-> NoArgs]
        ELSE [exit_code |-> 0, message |-> "none",
              args |-> AssignPositional(r.positional, r.html_output)]

\* __main__ up to the two calls of extract_configmap_data: the exit code,
\* the message printed before an exit, and the files read with the
\* selector and start key given for each.
main(argv) ==
    LET p == parse_args(argv)
        keys == parse_config_keys(p.args.config_key)
    IN  IF p.exit_code = 1
        THEN [exit_code |-> 1, message |-> p.message, args |-> p.args,
              reads |-> <<>>]
        ELSE IF IsFalsy(p.args.file1) \/ IsFalsy(p.args.file2)
        THEN [exit_code |-> 1, message |-> "usage", args |-> p.args,
              reads |-> <<>>]
        ELSE [exit_code |-> 0, message |-> "none", args |-> p.args,
              reads |-> <<[file_path |-> p.args.file1, config_key |-> keys[1],
                           start_key |-> p.args.start_key],
                          [file_path |-> p.args.file2, config_key |-> keys[2],
                           start_key |-> p.args.start_key]>>]

(***************************************************************************)
(* HTML escaping (escape_html, lines 74-76).                               *)
(***************************************************************************)
Amp == <<"&", "a", "m", "p", ";">>
Lt == <<"&", "l", "t", ";">>
Gt == <<"&", "g", "t", ";">>
Quot == <<"&", "q", "u", "o", "t", ";">>

\* The four replacements with '&' replaced last instead of first.
EscapeAmpLast(s) ==
    Replace(Replace(Replace(Replace(s, <<"<">>, Lt), <<">">>, Gt),
                    <<"\"">>, Quot),
            <<"&">>, Amp)

escape_html(s) ==
    Replace(Replace(Replace(Replace(s, <<"&">>, Amp), <<"<">>, Lt),
                    <<">">>, Gt),
            <<"\"">>, Quot)

(***************************************************************************)
(* Loading (extract_configmap_data, lines 19-53).  A file is the list of   *)
(* documents yaml.safe_load_all yields for it.  A document whose 'kind' is *)
(* 'ConfigMap' is <<"configmap", data>>, with data what its 'data' key     *)
(* holds: nothing (no such key), None, or the entries in file order.  A    *)
(* string payload is <<"yaml", outcome>>, the outcome being what           *)
(* yaml.safe_load makes of it: a value, or an exception.                   *)
(***************************************************************************)
ConfigMap(data) == <<"configmap", data>>
NoData == <<"absent", 0>>
Entries(seq) == <<"entries", seq>>
YamlText(outcome) == <<"yaml", outcome>>
ParseError == <<"error", 0>>
EmptyDict == Map(<<>>)

\* Python's truth value of a loaded value.
Truthy(v) ==
    CASE Tag(v) = "null" -> FALSE
      [] Tag(v) = "bool" -> Val(v)
      [] Tag(v) = "num" -> Val(v) # 0
      [] Tag(v) = "text" -> Val(v) # ""
      [] Tag(v) = "list" -> Val(v) # <<>>
      [] Tag(v) = "map" -> DOMAIN Val(v) # {}
      [] Tag(v) = "configmap" -> TRUE

IsDict(v) == Tag(v) \in {"map", "configmap"}

\* The loop of lines 29-32 from document i: doc.get raises AttributeError
\* on a document that is true and no dict; data stays None when no
\* ConfigMap is met, and is doc.get('data', {}) of the first one otherwise.
RECURSIVE FindConfigMap(_, _)
FindConfigMap(docs, i) ==
    IF i > Len(docs) THEN [raised |-> FALSE, data |-> Null]
    ELSE IF ~Truthy(docs[i]) THEN FindConfigMap(docs, i + 1)
    ELSE IF ~IsDict(docs[i]) THEN [raised |-> TRUE, data |-> Null]
    ELSE IF Tag(docs[i]) = "configmap"
    THEN [raised |-> FALSE,
          data |-> IF Val(docs[i]) = NoData THEN Entries(<<>>) ELSE Val(docs[i])]
    ELSE FindConfigMap(docs, i + 1)

\* key contains sub (Python's `sub in key` on strings).
Contains(key, sub) ==
    \E i \in 1..(Len(key) + 1) : StartsWith(SubSeq(key, i, Len(key)), sub)

\* result.update(parsed) for a dict parsed.
Update(result, parsed) ==
    [k \in DOMAIN result \cup DOMAIN parsed |->
        IF k \in DOMAIN parsed THEN parsed[k] ELSE result[k]]

\* The loop of lines 40-49 from entry i on: result.update raises on a
\* parsed number or boolean, which the bare except swallows like a failure
\* of yaml.safe_load.
RECURSIVE MergeEntries(_, _, _, _)
MergeEntries(entries, i, config_key, result) ==
    IF i > Len(entries) THEN result
    ELSE LET key == entries[i].key
             value == entries[i].value
         IN  IF ~IsFalsy(config_key) /\ ~Contains(key, config_key)
             THEN MergeEntries(entries, i + 1, config_key, result)
             ELSE IF Tag(value) = "yaml" /\ Val(value) # ParseError
                     /\ Truthy(Val(value)) /\ Tag(Val(value)) = "map"
             THEN MergeEntries(entries, i + 1, config_key,
                               Update(result, Val(Val(value))))
             ELSE MergeEntries(entries, i + 1, config_key, result)

\* extract_configmap_data(file_path, config_key, start_key), docs being the
\* documents of the file: whether it raised, and what it returned.
extract_configmap_data(docs, config_key, start_key) ==
    LET found == FindConfigMap(docs, 1)
    IN  IF found.raised THEN [raised |-> TRUE, result |-> Null]
        ELSE IF found.data = Null
        THEN [raised |-> FALSE,
              result |-> navigate_to_key(IF docs # <<>> THEN docs[1] ELSE EmptyDict,
                                         start_key).result]
        ELSE [raised |-> FALSE,
              result |-> navigate_to_key(
                             Map(MergeEntries(Val(found.data), 1, config_key, <<>>)),
                             start_key).result]

(***************************************************************************)
(* State of one run of the script.                                         *)
(***************************************************************************)
\*   a, b      the two loaded documents (lines 1156-1157)
\*   type_check_subclasses, get_pairs
\*             what the installed deepdiff does where the call leaves it
\*             open: the type-group test accepts subclasses; the distance
\*             heuristic pairs the unmatched items of two lists
\*   pc        position in __main__: "loaded", "compared", "printed"
\*   diff      the result of DeepDiff (line 1169)
\*   printed   what print_diff wrote (lines 1007-1083)
\*   html      what generate_html_report put in the report (lines 723-737)
\*   call, ret a call of one function of the script with its arguments, and
\*             what it returned
VARIABLES a, b, type_check_subclasses, get_pairs, pc, diff, printed, html,
          call, ret

run_vars == <<a, b, type_check_subclasses, get_pairs, pc, diff, printed, html>>
vars == <<a, b, type_check_subclasses, get_pairs, pc, diff, printed, html,
          call, ret>>

NoCall == [fn |-> "none"]

NotPrinted == [verdict |-> "none", values_changed |-> {},
               only_in_file1 |-> {}, only_in_file2 |-> {},
               list_only_in_file1 |-> {}, list_only_in_file2 |-> {},
               list_paths_file1 |-> {}, list_paths_file2 |-> {}]

NoHtml == [banner |-> "none", total_diffs |-> 0, changed_count |-> 0,
           file1_only_count |-> 0, file2_only_count |-> 0,
           list_file1_count |-> 0, list_file2_count |-> 0]

\* a and b as extract_configmap_data returned them; nothing compared yet.
Init ==
    /\ \E x \in Docs, y \in Docs, w \in Wraps :
          /\ a = Wrap(w, x)
          /\ b = Wrap(w, y)
    /\ type_check_subclasses \in BOOLEAN
    /\ get_pairs \in BOOLEAN
    /\ pc = "loaded"
    /\ diff = EmptyDiff
    /\ printed = NotPrinted
    /\ html = NoHtml
    /\ call = NoCall
    /\ ret = NoCall

\* diff = DeepDiff(a, b, ignore_order=True, ignore_type_in_groups=[...])
Compare ==
    /\ pc = "loaded"
    /\ diff' = DeepDiff(a, b, type_check_subclasses, get_pairs)
    /\ pc' = "compared"
    /\ UNCHANGED <<a, b, type_check_subclasses, get_pairs, printed, html, call, ret>>

\* print_diff(diff, file1_name, file2_name): the verdict line, then one
\* section for each of the five buckets it looks up; a list item is printed
\* as clean_path(path) and its value.
print_diff ==
    /\ pc = "compared"
    /\ printed' =
         IF IsEmpty(diff)
         THEN [NotPrinted EXCEPT !.verdict = "equal"]
         ELSE [verdict |-> "differences",
               values_changed |-> diff.values_changed,
               only_in_file1 |-> diff.dictionary_item_removed,
               only_in_file2 |-> diff.dictionary_item_added,
               list_only_in_file1 |-> diff.iterable_item_removed,
               list_only_in_file2 |-> diff.iterable_item_added,
               list_paths_file1 |->
                   {clean_path(PathStr(e.path)) : e \in diff.iterable_item_removed},
               list_paths_file2 |->
                   {clean_path(PathStr(e.path)) : e \in diff.iterable_item_added}]
    /\ pc' = "printed"
    /\ UNCHANGED <<a, b, type_check_subclasses, get_pairs, diff, html, call, ret>>

\* generate_html_report(diff, ...), called when --html was given: the
\* success banner when `not diff`, else the summary counts.
generate_html_report ==
    /\ pc = "printed"
    /\ html' =
         IF IsEmpty(diff)
         THEN [NoHtml EXCEPT !.banner = "equal"]
         ELSE LET changed_count == Cardinality(diff.values_changed)
                  file1_only_count == Cardinality(diff.dictionary_item_removed)
                  file2_only_count == Cardinality(diff.dictionary_item_added)
                  list_file1_count == Cardinality(diff.iterable_item_removed)
                  list_file2_count == Cardinality(diff.iterable_item_added)
              IN  [banner |-> "differences",
                   total_diffs |-> changed_count + file1_only_count
                                     + file2_only_count + list_file1_count
                                     + list_file2_count,
                   changed_count |-> changed_count,
                   file1_only_count |-> file1_only_count,
                   file2_only_count |-> file2_only_count,
                   list_file1_count |-> list_file1_count,
                   list_file2_count |-> list_file2_count]
    /\ pc' = "reported"
    /\ UNCHANGED <<a, b, type_check_subclasses, get_pairs, diff, printed, call, ret>>

Next == Compare \/ print_diff \/ generate_html_report

Spec == Init /\ [][Next]_vars

\* The runs in which the distance heuristic finds no two list items close
\* enough to pair.
InitNoPairs == Init /\ get_pairs = FALSE

SpecNoPairs == InitNoPairs /\ [][Next]_vars

Compared == pc \in {"compared", "printed", "reported"}

(***************************************************************************)
(* The functions of the script, each called on its own.                    *)
(***************************************************************************)
\* No run of the comparison is under way.
NoRun ==
    /\ a = Null /\ b = Null
    /\ type_check_subclasses = FALSE /\ get_pairs = FALSE
    /\ pc = "idle"
    /\ diff = EmptyDiff /\ printed = NotPrinted /\ html = NoHtml

\* Strings over the characters of chars, at most n long.
StringsOver(chars, n) == UNION {[1..k -> chars] : k \in 0..n}

\* Documents with up to two more levels of keys above them.
Under(k, v) == Map([x \in {k} |-> v])
NavDocs == Docs \cup {Under("a", d) : d \in Docs}
                \cup {Under("a", Under("b", d)) : d \in Docs}
KeyPaths == StringsOver({"a", "b", "."}, MaxPathLen) \cup {NoneStr}

InitNavigate ==
    /\ NoRun
    /\ \E data \in NavDocs, key_path \in KeyPaths :
          call = [fn |-> "navigate_to_key", data |-> data, key_path |-> key_path]
    /\ ret = NoCall

CallNavigateToKey ==
    /\ call.fn = "navigate_to_key" /\ ret = NoCall
    /\ ret' = navigate_to_key(call.data, call.key_path)
    /\ UNCHANGED <<run_vars, call>>

SpecNavigate == InitNavigate /\ [][CallNavigateToKey]_vars

\* The string of n characters whose i-th character is the last digit of i.
Str(n) == [i \in 1..n |-> Digits[(i % 10) + 1]]

FileNames == {Str(0), Str(8), Str(MaxStr)}

InitTruncate ==
    /\ NoRun
    /\ \/ \E n \in 0..MaxStr, max_len \in 0..MaxStr :
             call = [fn |-> "truncate", s |-> Str(n), max_len |-> max_len]
       \/ \E n1 \in 0..MaxStr, n2 \in 0..MaxStr, name \in FileNames :
             call = [fn |-> "print_diff", values |-> <<Str(n1), Str(n2)>>,
                     file_name |-> name]
    /\ ret = NoCall

CallTruncate ==
    /\ call.fn = "truncate" /\ ret = NoCall
    /\ ret' = [s |-> truncate(call.s, call.max_len)]
    /\ UNCHANGED <<run_vars, call>>

\* One value column of the VALUES CHANGED table of print_diff.
CallValueCells ==
    /\ call.fn = "print_diff" /\ ret = NoCall
    /\ ret' = [width |-> ValueWidth(call.values, call.file_name),
               cells |-> ValueCells(call.values, call.file_name)]
    /\ UNCHANGED <<run_vars, call>>

SpecTruncate == InitTruncate /\ [][CallTruncate \/ CallValueCells]_vars

Prog == <<"p">>
Tokens == {HtmlFlag, <<>>, <<"f">>, <<"g">>, <<"k">>, <<"k", ":", "j">>,
           <<"k", ":", "j", ":", "k">>}
Argvs == UNION {{<<Prog>> \o t : t \in [1..n -> Tokens]} : n \in 0..MaxArgs}

InitMain ==
    /\ NoRun
    /\ \E argv \in Argvs : call = [fn |-> "main", argv |-> argv]
    /\ ret = NoCall

CallMain ==
    /\ call.fn = "main" /\ ret = NoCall
    /\ ret' = main(call.argv)
    /\ UNCHANGED <<run_vars, call>>

SpecMain == InitMain /\ [][CallMain]_vars

\* Payloads of a data entry: strings that parse to a mapping, to nothing
\* (an empty string), to a number, or not at all, and values that are no
\* strings.
ParsedMaps == {Map([k \in {"a"} |-> Num(0)]),
               Map([k \in {"a", "b"} |-> Num(1)])}
Payloads == {YamlText(m) : m \in ParsedMaps}
               \cup {YamlText(Null), YamlText(Num(1)), YamlText(ParseError), Num(1)}
EntryKeys == {<<"k">>, <<"k", "j">>, <<"j">>}
DataEntries == [key : EntryKeys, value : Payloads]

\* A mapping has every key once.
DistinctKeys(es) == \A i, j \in DOMAIN es : es[i].key = es[j].key => i = j
ConfigMaps(n) ==
    {ConfigMap(NoData), ConfigMap(Null)}
        \cup UNION {{ConfigMap(Entries(es)) :
                        es \in {x \in [1..k -> DataEntries] : DistinctKeys(x)}} :
                    k \in 0..n}
PlainDocs == {Null, EmptyDict, Map([k \in {"a"} |-> Num(0)]),
              List(<<Num(0)>>), Num(1)}
FileDocs == PlainDocs \cup ConfigMaps(MaxEntries)
LeadDocs == PlainDocs \cup ConfigMaps(0)
Files == {<<>>} \cup {<<d>> : d \in FileDocs}
            \cup {<<p, d>> : p \in LeadDocs, d \in FileDocs}
            \cup {<<d, p>> : p \in LeadDocs, d \in FileDocs}
Selectors == {NoneStr, <<>>, <<"k">>, <<"j">>}
StartKeys == {NoneStr, <<"a">>}

InitExtract ==
    /\ NoRun
    /\ \E docs \in Files, config_key \in Selectors, start_key \in StartKeys :
          call = [fn |-> "extract_configmap_data", docs |-> docs,
                  config_key |-> config_key, start_key |-> start_key]
    /\ ret = NoCall

CallExtractConfigmapData ==
    /\ call.fn = "extract_configmap_data" /\ ret = NoCall
    /\ ret' = extract_configmap_data(call.docs, call.config_key, call.start_key)
    /\ UNCHANGED <<run_vars, call>>

SpecExtract == InitExtract /\ [][CallExtractConfigmapData]_vars

\* Strings of the four escaped characters and of letters that let an
\* input hold an entity itself.
EscChars == {"&", "<", ">", "\"", ";", "l", "t", "a"}

InitEscape ==
    /\ NoRun
    /\ \E s \in StringsOver(EscChars, MaxEsc) : call = [fn |-> "escape_html", s |-> s]
    /\ ret = NoCall

CallEscapeHtml ==
    /\ call.fn = "escape_html" /\ ret = NoCall
    /\ ret' = [s |-> escape_html(call.s)]
    /\ UNCHANGED <<run_vars, call>>

SpecEscape == InitEscape /\ [][CallEscapeHtml]_vars


(***************************************************************************)
(* Properties.                                                             *)
(***************************************************************************)
Changed1(path, t1, t2) ==
    [EmptyDiff EXCEPT !.values_changed = {Change(path, t1, t2)}]

\* y holds the items of x in another order.
PermutedLists(x, y) ==
    /\ Tag(x) = "list" /\ Tag(y) = "list"
    /\ Len(Val(x)) = Len(Val(y))
    /\ \E p \in Permutations(DOMAIN Val(x)) :
          \A i \in DOMAIN Val(x) : Val(y)[i] = Val(x)[p[i]]

IsMapOfOneList(v) ==
    /\ Tag(v) = "map"
    /\ DOMAIN Val(v) = {"a"}
    /\ Tag(Val(v)["a"]) = "list"

PermutationIsEmpty ==
    /\ (Compared /\ PermutedLists(a, b)) => IsEmpty(diff)
    /\ (Compared /\ IsMapOfOneList(a) /\ IsMapOfOneList(b)
          /\ PermutedLists(Val(a)["a"], Val(b)["a"])) => IsEmpty(diff)

PermutationWitness ==
    /\ pc = "compared" /\ a # b
    /\ IsMapOfOneList(a) /\ IsMapOfOneList(b)
    /\ PermutedLists(Val(a)["a"], Val(b)["a"])
    /\ IsEmpty(diff)

Count(s, v) == Cardinality({i \in DOMAIN s : s[i] = v})
Minus(m, n) == IF m > n THEN m - n ELSE 0

\* C3: for two sequences the removed list items are the multiset difference
\* old minus new and the added list items are new minus old, counting
\* duplicates, and the result holds nothing else.
SequenceMultisetDiff ==
    (Compared /\ Tag(a) = "list" /\ Tag(b) = "list") =>
        /\ \A v \in ListItems :
              /\ Cardinality({e \in diff.iterable_item_removed : e.value = v})
                    = Minus(Count(Val(a), v), Count(Val(b), v))
              /\ Cardinality({e \in diff.iterable_item_added : e.value = v})
                    = Minus(Count(Val(b), v), Count(Val(a), v))
        /\ diff.values_changed = {} /\ diff.type_changes = {}
        /\ diff.dictionary_item_added = {} /\ diff.dictionary_item_removed = {}

\* Canonical string form of a scalar: decimal digits of a number,
\* "true"/"false" for a boolean, the literal for a text.
CanonStr(v) ==
    CASE Tag(v) = "num" -> NumStr(Val(v))
      [] Tag(v) = "bool" -> (IF Val(v) THEN "true" ELSE "false")
      [] Tag(v) = "text" -> Val(v)
      [] Tag(v) = "null" -> "null"

InCommonGroup(x, y) ==
    /\ Tag(x) # Tag(y)
    /\ \/ {Tag(x), Tag(y)} = {"num", "text"}
       \/ {Tag(x), Tag(y)} = {"bool", "text"}

\* C4: two scalars of different type tags that share a group ({Number,
\* Text} or {Bool, Text}) are equal iff their canonical strings are equal:
\* the result is empty then, and otherwise it is exactly one Changed entry
\* carrying the old and the new value.
EquivalenceGroupTolerance ==
    (Compared /\ InCommonGroup(a, b)) =>
        IF CanonStr(a) = CanonStr(b)
        THEN IsEmpty(diff)
        ELSE diff = Changed1(Root, a, b)

\* C5: a Number and a Bool at the same path are never equal; the result
\* holds a Changed entry for them.
NumberNeverEqualsBool ==
    (Compared /\ {Tag(a), Tag(b)} = {"num", "bool"}) =>
        Change(Root, a, b) \in diff.values_changed

\* The paths of `paths` that are one key below `prefix`.
KeysAt(prefix, paths) ==
    {p \in paths : Len(p) = Len(prefix) + 1 /\ SubSeq(p, 1, Len(prefix)) = prefix}

AllPaths(d) ==
    {e.path : e \in d.values_changed \cup d.type_changes
                      \cup d.iterable_item_added \cup d.iterable_item_removed}
        \cup d.dictionary_item_added \cup d.dictionary_item_removed

\* Every entry of d below `prefix`, other than the additions and removals
\* of keys at `prefix` itself, lies under a key of both m1 and m2.
OnlyRecursedInto(prefix, m1, m2, d) ==
    \A p \in AllPaths(d) \ (KeysAt(prefix, d.dictionary_item_added)
                              \cup KeysAt(prefix, d.dictionary_item_removed)) :
        /\ Len(p) > Len(prefix)
        /\ \E k \in DOMAIN m1 \cap DOMAIN m2 : p[Len(prefix) + 1] = KeySeg(k)

KeyPartition(prefix, m1, m2, d) ==
    /\ KeysAt(prefix, d.dictionary_item_removed) =
          {Append(prefix, KeySeg(k)) : k \in DOMAIN m1 \ DOMAIN m2}
    /\ KeysAt(prefix, d.dictionary_item_added) =
          {Append(prefix, KeySeg(k)) : k \in DOMAIN m2 \ DOMAIN m1}
    /\ d.dictionary_item_removed \cap d.dictionary_item_added = {}
    /\ OnlyRecursedInto(prefix, m1, m2, d)

IsMapOfOneMap(v) ==
    /\ Tag(v) = "map"
    /\ DOMAIN Val(v) = {"a"}
    /\ Tag(Val(v)["a"]) = "map"

\* C6: for two mappings the removed keys are the keys of old absent from
\* new, the added keys are the keys of new absent from old, no path is both
\* added and removed, and every other entry lies under a key of both.
MapKeyPartition ==
    /\ (Compared /\ Tag(a) = "map" /\ Tag(b) = "map") =>
          KeyPartition(Root, Val(a), Val(b), diff)
    /\ (Compared /\ IsMapOfOneMap(a) /\ IsMapOfOneMap(b)) =>
          KeyPartition(<<KeySeg("a")>>, Val(Val(a)["a"]), Val(Val(b)["a"]), diff)

MapKeyPartitionWitness ==
    /\ pc = "compared" /\ Tag(a) = "map" /\ Tag(b) = "map"
    /\ DOMAIN Val(a) = {"a", "b"} /\ DOMAIN Val(b) = {"b", "c"}
    /\ diff.dictionary_item_removed = {<<KeySeg("a")>>}
    /\ diff.dictionary_item_added = {<<KeySeg("c")>>}
    /\ diff.values_changed = {}

Shape(v) == IF IsScalar(v) THEN "scalar" ELSE Tag(v)

\* C7: when the two values at a path differ in shape (mapping, sequence,
\* scalar) the result is exactly one Changed entry at that path with both
\* whole values, and the report renders it in its changed section.
ShapeMismatchIsChanged ==
    /\ (Compared /\ Shape(a) # Shape(b)) => diff = Changed1(Root, a, b)
    /\ (pc = "printed" /\ Shape(a) # Shape(b)) =>
          printed.values_changed = {Change(Root, a, b)}

\* d2 holds every entry of d1 with the two sides exchanged.
Mirrors(d1, d2) ==
    /\ \A e \in d1.values_changed :
          Change(e.path, e.new_value, e.old_value) \in d2.values_changed
    /\ d1.dictionary_item_added \subseteq d2.dictionary_item_removed
    /\ d1.dictionary_item_removed \subseteq d2.dictionary_item_added
    /\ \A e \in d1.iterable_item_added :
          \E f \in d2.iterable_item_removed : f.value = e.value
    /\ \A e \in d1.iterable_item_removed :
          \E f \in d2.iterable_item_added : f.value = e.value

\* C8: every Changed entry of compare(a, b) is, with old and new exchanged,
\* a Changed entry of compare(b, a) at the same path; added and removed
\* keys and added and removed list items exchange roles.
SymmetryOfClassification ==
    Compared =>
        Mirrors(diff, DeepDiff(b, a, type_check_subclasses, get_pairs))

HasIndex(path) == \E i \in DOMAIN path : path[i][1] = "idx"

\* C9: an item of a sequence that differs between old and new is reported
\* as one removed plus one added list item of that sequence, and no Changed
\* entry lies at or below a sequence.
NoChangedInsideSequences ==
    /\ Compared => \A e \in diff.values_changed : ~ HasIndex(e.path)
    /\ (Compared /\ Tag(a) = "list" /\ Tag(b) = "list"
          /\ Len(Val(a)) = 1 /\ Len(Val(b)) = 1
          /\ DeepHash(Val(a)[1]) # DeepHash(Val(b)[1])) =>
          /\ {e.value : e \in diff.iterable_item_removed} = {Val(a)[1]}
          /\ {e.value : e \in diff.iterable_item_added} = {Val(b)[1]}

Printed == pc \in {"printed", "reported"}

IndexChars == {"[", "]"} \cup {Digits[i] : i \in DOMAIN Digits}

\* C11: every removed or added list item carries the path of the enclosing
\* sequence with no index segment, and the path print_diff renders for it
\* contains no index.
ListEntriesHaveNoIndex ==
    /\ Compared =>
          \A e \in diff.iterable_item_removed \cup diff.iterable_item_added :
              ~ HasIndex(e.path)
    /\ Printed =>
          \A p \in printed.list_paths_file1 \cup printed.list_paths_file2 :
              \A i \in DOMAIN p : p[i] \notin IndexChars

AllEntries(d) ==
    Cardinality(d.type_changes) + Cardinality(d.values_changed)
      + Cardinality(d.dictionary_item_added)
      + Cardinality(d.dictionary_item_removed)
      + Cardinality(d.iterable_item_added)
      + Cardinality(d.iterable_item_removed)

\* C13: the total of the report is the sum of the five bucket counts and
\* the number of differences the engine found, the report states semantic
\* equality iff that total is zero, and a result that is not empty has an
\* entry in one of the five buckets.
ClassifierCounts ==
    pc = "reported" =>
        /\ html.total_diffs = html.changed_count + html.file1_only_count
                                + html.file2_only_count + html.list_file1_count
                                + html.list_file2_count
        /\ html.total_diffs = AllEntries(diff)
        /\ (html.banner = "equal") <=> (html.total_diffs = 0)
        /\ (printed.verdict = "equal") <=> (html.total_diffs = 0)
        /\ ~ IsEmpty(diff) =>
              \/ diff.values_changed # {}
              \/ diff.dictionary_item_added # {}
              \/ diff.dictionary_item_removed # {}
              \/ diff.iterable_item_added # {}
              \/ diff.iterable_item_removed # {}

\* The equivalence evaluator of the design: same tag, equal values; tags of
\* one group, equal canonical strings; else not equal.
EvaluatorEqual(x, y) ==
    IF Tag(x) = Tag(y) THEN Val(x) = Val(y)
    ELSE InCommonGroup(x, y) /\ CanonStr(x) = CanonStr(y)

\* C16: two scalars at one path give exactly one Changed entry with the old
\* and the new value when the evaluator says NotEqual and no entry when it
\* says Equal; no path appears twice in the Changed bucket.
SingleChangedPerPath ==
    /\ (Compared /\ IsScalar(a) /\ IsScalar(b)) =>
          diff.values_changed =
              IF EvaluatorEqual(a, b) THEN {} ELSE {Change(Root, a, b)}
    /\ Compared =>
          \A e \in diff.values_changed : \A f \in diff.values_changed :
              e.path = f.path => e = f


(***************************************************************************)
(* Navigation (navigate_to_key, lines 55-68).                              *)
(***************************************************************************)
Returned == ret # NoCall

\* The dot-separated segments of key_path, from the positions of its dots.
DotsOf(s) == {i \in DOMAIN s : s[i] = "."}
Cut(s, j) ==
    IF j = 0 THEN 0
    ELSE IF j > Cardinality(DotsOf(s)) THEN Len(s) + 1
    ELSE CHOOSE i \in DotsOf(s) : Cardinality({d \in DotsOf(s) : d < i}) = j - 1
Segments(s) ==
    [j \in 1..(Cardinality(DotsOf(s)) + 1) |->
        SubSeq(s, Cut(s, j - 1) + 1, Cut(s, j) - 1)]

\* Every segment is, in turn, a key of the mapping reached so far.
RECURSIVE Resolves(_, _)
Resolves(v, segs) ==
    \/ segs = <<>>
    \/ /\ Tag(v) = "map"
       /\ \E k \in DOMAIN Val(v) :
             <<k>> = Head(segs) /\ Resolves(Val(v)[k], Tail(segs))

\* The value stored at the nested path segs of v, when segs resolves.
RECURSIVE ValueAt(_, _)
ValueAt(v, segs) ==
    IF segs = <<>> THEN v
    ELSE ValueAt(Val(v)[CHOOSE k \in DOMAIN Val(v) : <<k>> = Head(segs)],
                 Tail(segs))

\* C12: when some segment of a non-empty key_path is absent, or the value
\* reached is not a mapping, navigate_to_key returns the original tree data
\* (and a warning), whichever segment is the first one missing.
NavigationFallback ==
    (/\ call.fn = "navigate_to_key" /\ Returned
     /\ ~IsFalsy(call.key_path)
     /\ ~Resolves(call.data, Segments(call.key_path)))
    => /\ ret.result = call.data
       /\ ret.warning # NoneStr

\* The first segment is found and a later one is missing: the sub-tree
\* reached so far differs from data, and data is what is returned.
NavigationFallbackWitness ==
    /\ call.fn = "navigate_to_key" /\ Returned
    /\ call.key_path = <<"a", ".", "b">>
    /\ Resolves(call.data, <<<<"a">>>>)
    /\ ValueAt(call.data, <<<<"a">>>>) # call.data
    /\ ~Resolves(call.data, Segments(call.key_path))
    /\ ret.result = call.data

\* C18: when every segment of key_path resolves, navigate_to_key returns
\* the value stored at the nested path; when key_path is empty or None it
\* returns data; the call leaves its argument as it was.
NavigationSuccess ==
    (call.fn = "navigate_to_key" /\ Returned)
    => /\ IsFalsy(call.key_path) => ret.result = call.data
       /\ (/\ ~IsFalsy(call.key_path)
           /\ Resolves(call.data, Segments(call.key_path)))
          => /\ ret.result = ValueAt(call.data, Segments(call.key_path))
             /\ ret.warning = NoneStr

\* A path of two segments resolves to a sequence two levels down.
NavigationSuccessWitness ==
    /\ call.fn = "navigate_to_key" /\ Returned
    /\ call.key_path = <<"a", ".", "b">>
    /\ Resolves(call.data, Segments(call.key_path))
    /\ Tag(ret.result) = "list"
    /\ ret.result = ValueAt(call.data, <<<<"a">>, <<"b">>>>)
    /\ ret.result # call.data

ValueCellsFitColumn ==
    (call.fn = "print_diff" /\ Returned)
    => /\ ret.width <= ValueWidthCap
       /\ \A i \in DOMAIN ret.cells : Len(ret.cells[i]) <= ret.width

\* A value longer than the cap is cut to the column width.
ValueCellsWitness ==
    /\ call.fn = "print_diff" /\ Returned
    /\ Len(call.values[1]) > ValueWidthCap
    /\ ret.width = ValueWidthCap
    /\ Len(ret.cells[1]) = ValueWidthCap
    /\ ret.cells[1] # call.values[1]

(***************************************************************************)
(* The command line (parse_args, parse_config_keys, __main__).             *)
(***************************************************************************)
\* The number of '--html' tokens in a row immediately before token i.
HtmlRunBefore(argv, i) ==
    Cardinality({j \in 2..(i - 1) : \A k \in j..(i - 1) : argv[k] = HtmlFlag})

\* Token i is taken as a report path: it follows an '--html' that was not
\* itself taken as a report path.
IsReportPath(argv, i) == HtmlRunBefore(argv, i) % 2 = 1
IsOption(argv, i) == argv[i] = HtmlFlag /\ ~IsReportPath(argv, i)
PositionalAt(argv) ==
    {i \in 2..Len(argv) : argv[i] # HtmlFlag /\ ~IsReportPath(argv, i)}

\* The n-th smallest element of the set of numbers S.
Nth(S, n) == CHOOSE i \in S : Cardinality({j \in S : j < i}) = n - 1
Positionals(argv) ==
    [n \in 1..Cardinality(PositionalAt(argv)) |-> argv[Nth(PositionalAt(argv), n)]]

\* An '--html' with no token after it to take.
Dangling(argv) == Len(argv) >= 2 /\ IsOption(argv, Len(argv))

OrNone(seq, n) == IF Len(seq) >= n THEN seq[n] ELSE NoneStr

\* C14: with fewer than two positional document locations the program
\* exits non-zero before any file is read, and, whether or not an '--html'
\* with its value is among the arguments, what it prints is the usage
\* message.
UsageError ==
    (/\ call.fn = "main" /\ Returned
     /\ Len(Positionals(call.argv)) < 2)
    => /\ ret.exit_code = 1
       /\ ret.reads = <<>>
       /\ ~Dangling(call.argv) => ret.message = "usage"

\* One location and an '--html' with its value.
UsageErrorWitness ==
    /\ call.fn = "main" /\ Returned
    /\ call.argv = <<Prog, <<"f">>, HtmlFlag, <<"k">>>>
    /\ ret.exit_code = 1 /\ ret.message = "usage" /\ ret.reads = <<>>

HasColon(s) == \E i \in DOMAIN s : s[i] = ":"

\* C15 as stated: (None, None) for an absent selector, (k, k) for every
\* selector k without a colon, and the texts before and after the first
\* colon otherwise; the left one goes to the first document only and the
\* right one to the second only.
SelectorPerDocument ==
    (call.fn = "main" /\ Returned /\ ret.exit_code = 0)
    => LET k == OrNone(Positionals(call.argv), 3)
           left == ret.reads[1].config_key
           right == ret.reads[2].config_key
       IN  /\ ret.reads[1].file_path = Positionals(call.argv)[1]
           /\ ret.reads[2].file_path = Positionals(call.argv)[2]
           /\ k = NoneStr => left = NoneStr /\ right = NoneStr
           /\ (k # NoneStr /\ ~HasColon(k)) => left = k /\ right = k
           /\ (k # NoneStr /\ HasColon(k))
              => left \o <<":">> \o right = k /\ ~HasColon(left)

\* C15 as amended: an empty selector counts as absent.
SelectorPerDocumentNonEmpty ==
    (call.fn = "main" /\ Returned /\ ret.exit_code = 0)
    => LET k == OrNone(Positionals(call.argv), 3)
           left == ret.reads[1].config_key
           right == ret.reads[2].config_key
       IN  /\ ret.reads[1].file_path = Positionals(call.argv)[1]
           /\ ret.reads[2].file_path = Positionals(call.argv)[2]
           /\ (k = NoneStr \/ k = <<>>) => left = NoneStr /\ right = NoneStr
           /\ (k # NoneStr /\ k # <<>> /\ ~HasColon(k)) => left = k /\ right = k
           /\ (k # NoneStr /\ HasColon(k))
              => left \o <<":">> \o right = k /\ ~HasColon(left)

\* A selector with two colons is split at the first.
SelectorWitness ==
    /\ call.fn = "main" /\ Returned /\ ret.exit_code = 0
    /\ Positionals(call.argv)[1] = <<"f">>
    /\ Positionals(call.argv)[2] = <<"g">>
    /\ OrNone(Positionals(call.argv), 3) = <<"k", ":", "j", ":", "k">>
    /\ ret.reads[1].file_path = <<"f">>
    /\ ret.reads[2].file_path = <<"g">>
    /\ ret.reads[1].config_key = <<"k">>
    /\ ret.reads[2].config_key = <<"j", ":", "k">>

\* What parse_args is to return for the positionals and report path found.
ExpectedArgs(argv) ==
    LET P == Positionals(argv)
        options == {i \in 2..Len(argv) : IsOption(argv, i)}
    IN  [file1 |-> IF Len(P) >= 2 THEN P[1] ELSE NoneStr,
         file2 |-> IF Len(P) >= 2 THEN P[2] ELSE NoneStr,
         config_key |-> OrNone(P, 3),
         start_key |-> OrNone(P, 4),
         html_output |-> IF options = {} THEN NoneStr
                         ELSE argv[Nth(options, Cardinality(options)) + 1]]

\* C19 as stated: every '--html' token takes the token after it as the
\* report path, parse_args exits with status 1 when '--html' is the last
\* token, and the remaining tokens go in order to file1, file2, config_key
\* and start_key.
EveryHtmlTakesNext ==
    (call.fn = "main" /\ Returned)
    => LET argv == call.argv
       IN  IF Len(argv) >= 2 /\ argv[Len(argv)] = HtmlFlag
           THEN ret.exit_code = 1 /\ ret.message = "html_error"
           ELSE LET rest == {i \in 2..Len(argv) :
                               argv[i] # HtmlFlag /\ argv[i - 1] # HtmlFlag}
                    P == [n \in 1..Cardinality(rest) |-> argv[Nth(rest, n)]]
                IN  /\ ret.args.file1 = (IF Len(P) >= 2 THEN P[1] ELSE NoneStr)
                    /\ ret.args.file2 = (IF Len(P) >= 2 THEN P[2] ELSE NoneStr)
                    /\ ret.args.config_key = OrNone(P, 3)
                    /\ ret.args.start_key = OrNone(P, 4)

\* C19 as amended: every '--html' token that was not itself taken as a
\* report path takes the token after it as the report path (the last one
\* wins), parse_args exits with status 1 when such an '--html' is the last
\* token, and the tokens that are neither go in order to file1, file2,
\* config_key and start_key; those beyond the fourth are ignored, and with
\* fewer than two file1 and file2 stay None.
ArgumentParsing ==
    (call.fn = "main" /\ Returned)
    => IF Dangling(call.argv)
       THEN ret.exit_code = 1 /\ ret.message = "html_error"
       ELSE ret.message # "html_error" /\ ret.args = ExpectedArgs(call.argv)

\* An '--html' between the positionals, and a fifth positional.
ArgumentParsingWitness ==
    /\ call.fn = "main" /\ Returned
    /\ \/ /\ call.argv = <<Prog, <<"f">>, HtmlFlag, <<"k">>, <<"g">>,
                            <<"k", ":", "j">>>>
          /\ ret.args = [file1 |-> <<"f">>, file2 |-> <<"g">>,
                         config_key |-> <<"k", ":", "j">>,
                         start_key |-> NoneStr, html_output |-> <<"k">>]
       \/ /\ call.argv = <<Prog, <<"f">>, <<"g">>, <<"k">>, <<"k">>, <<"f">>>>
          /\ ret.args.start_key = <<"k">>

(***************************************************************************)
(* Loading (extract_configmap_data).                                       *)
(***************************************************************************)
\* The entries the claim has merged: selected by the selector, a string,
\* parsed, and not empty.
Merged(entries, config_key) ==
    {i \in DOMAIN entries :
        /\ IsFalsy(config_key) \/ Contains(entries[i].key, config_key)
        /\ Tag(entries[i].value) = "yaml"
        /\ Tag(Val(entries[i].value)) = "map"
        /\ DOMAIN Val(Val(entries[i].value)) # {}}

\* Every top-level key of a merged entry, with the value of the last
\* merged entry that has it.
ExpectedResult(entries, config_key) ==
    LET M == Merged(entries, config_key)
        Has(k) == {i \in M : k \in DOMAIN Val(Val(entries[i].value))}
    IN  Map([k \in UNION {DOMAIN Val(Val(entries[i].value)) : i \in M} |->
               Val(Val(entries[CHOOSE i \in Has(k) : \A j \in Has(k) : j <= i].value))[k]])

ConfigMapsOf(docs) == {i \in DOMAIN docs : Tag(docs[i]) = "configmap"}
EntriesOf(doc) == IF Tag(Val(doc)) = "entries" THEN Val(Val(doc)) ELSE <<>>

\* C21: with a ConfigMap document in the file the result is built from the
\* data entries of the first one whose key contains the selector (every
\* entry without a selector), merged in data order, a later top-level key
\* overwriting an earlier one, and entries with no string, an empty or an
\* unparsable payload skipped; with no ConfigMap document the first
\* document is used whole, whatever the selector.  Either is then
\* navigated by start_key.
EnvelopeExtraction ==
    (call.fn = "extract_configmap_data" /\ Returned)
    => /\ ~ret.raised
       /\ ret.result =
            navigate_to_key(
                IF ConfigMapsOf(call.docs) # {}
                THEN ExpectedResult(
                         EntriesOf(call.docs[Nth(ConfigMapsOf(call.docs), 1)]),
                         call.config_key)
                ELSE IF call.docs # <<>> THEN call.docs[1] ELSE EmptyDict,
                call.start_key).result

(***************************************************************************)
(* HTML escaping (escape_html).                                            *)
(***************************************************************************)
EntityOf == [c \in {"&", "<", ">", "\""} |->
                CASE c = "&" -> Amp [] c = "<" -> Lt [] c = ">" -> Gt
                  [] c = "\"" -> Quot]

\* Reading s from the left, every entity becomes the character it names.
RECURSIVE Unescape(_)
Unescape(s) ==
    IF s = <<>> THEN <<>>
    ELSE IF \E c \in DOMAIN EntityOf : StartsWith(s, EntityOf[c])
    THEN LET c == CHOOSE c \in DOMAIN EntityOf : StartsWith(s, EntityOf[c])
         IN  <<c>> \o Unescape(SubSeq(s, Len(EntityOf[c]) + 1, Len(s)))
    ELSE <<Head(s)>> \o Unescape(Tail(s))

\* The length of s with every escaped character counted as its entity.
EscapedLen(s) ==
    Len(s) + 4 * Cardinality({i \in DOMAIN s : s[i] = "&"})
           + 3 * Cardinality({i \in DOMAIN s : s[i] \in {"<", ">"}})
           + 5 * Cardinality({i \in DOMAIN s : s[i] = "\""})

\* C22: the result of escape_html has no raw '<', '>' or '"', every '&'
\* in it starts one of &amp; &lt; &gt; &quot;, no entity is escaped twice
\* (each escaped character is replaced once), and un-escaping the result
\* gives back the input.
EscapeHtmlRoundTrip ==
    (call.fn = "escape_html" /\ Returned)
    => /\ \A i \in DOMAIN ret.s : ret.s[i] \notin {"<", ">", "\""}
       /\ \A i \in DOMAIN ret.s :
             ret.s[i] = "&"
             => \E c \in DOMAIN EntityOf :
                   StartsWith(SubSeq(ret.s, i, Len(ret.s)), EntityOf[c])
       /\ Len(ret.s) = EscapedLen(call.s)
       /\ Unescape(ret.s) = call.s

\* An input that holds an entity and a raw '<'.
EscapeHtmlWitness ==
    /\ call.fn = "escape_html" /\ Returned
    /\ call.s = <<"&", "l", "t", ";", "<">>
    /\ ret.s = Amp \o <<"l", "t", ";">> \o Lt
    /\ Unescape(ret.s) = call.s
====
